---- MODULE Spec2Model ----
(***************************************************************************)
(* QoiImagePlugin.py: the QOI encoder (QoiEncoder, _save) and decoder      *)
(* (QoiImageFile._open, QoiDecoder) as a state machine.  A session either  *)
(* saves an image to a file and then opens and loads that file, or opens   *)
(* and loads a file that was given.                                        *)
(***************************************************************************)
EXTENDS Integers, Sequences, FiniteSets, TLC

\* ------------------------------------------------------------------------
\* Bounds of the model
\* ------------------------------------------------------------------------
\* longest image whose pixels are drawn freely from the palette
MaxLen == 3
\* run images: a pixel repeated k*62 + r times, 1 <= k <= RunBlocks, with r
\* one of -1, 0, 1 (around a full run) or 6 .. RunRest
RunBlocks == 2
RunRest == 6
\* largest small buffer size handed to QoiEncoder.encode (smallest is 7)
MaxBuf == 8
\* most opcodes in a file that is given rather than saved
MaxOps == 2
MaxChunk == 4

\* ------------------------------------------------------------------------
\* Format constants (lines 34-46)
\* ------------------------------------------------------------------------
QOI_MAGIC == <<113, 111, 105, 102>>
QOI_HEADER_RGB == 3
QOI_HEADER_RGBA == 4
QOI_HEADER_SRGB == 0
QOI_OP_RGB == 254
QOI_OP_RGBA == 255
QOI_OP_INDEX == 0
QOI_OP_DIFF == 64
QOI_OP_LUMA == 128
QOI_OP_RUN == 192
QOI_OP_MASK == 192
QOI_EOF_MARKER == <<0, 0, 0, 0, 0, 0, 0, 1>>
\* ImageFile.MAXBLOCK, the buffer size _save passes to encode
MAXBLOCK == 65536

\* ------------------------------------------------------------------------
\* Bit operations on bytes, as Python computes them on non-negative ints
\* ------------------------------------------------------------------------
RECURSIVE BitOr(_, _)
BitOr(a, b) ==
    IF a = 0 THEN b
    ELSE IF b = 0 THEN a
    ELSE (IF a % 2 = 1 \/ b % 2 = 1 THEN 1 ELSE 0) + 2 * BitOr(a \div 2, b \div 2)

RECURSIVE BitAnd(_, _)
BitAnd(a, b) ==
    IF a = 0 \/ b = 0 THEN 0
    ELSE (IF a % 2 = 1 /\ b % 2 = 1 THEN 1 ELSE 0) + 2 * BitAnd(a \div 2, b \div 2)

\* tag & ~QOI_OP_MASK: the low six bits
LowBits(tag) == BitAnd(tag, 255 - QOI_OP_MASK)

\* struct.pack('>I', n)
PackU32(n) ==
    << (n \div 16777216) % 256, (n \div 65536) % 256, (n \div 256) % 256, n % 256 >>

\* struct.unpack('>I', b)
UnpackU32(b) == ((b[1] * 256 + b[2]) * 256 + b[3]) * 256 + b[4]

\* b[i:j] of Python for 0 <= i <= j (0-based, clipped to the length)
Slice(b, i, j) ==
    LET hi == IF j < Len(b) THEN j ELSE Len(b)
    IN  IF hi <= i THEN << >> ELSE SubSeq(b, i + 1, hi)

_accept(prefix) == Slice(prefix, 0, 4) = QOI_MAGIC

_pixel_hash(pixel) ==
    (pixel[1] * 3 + pixel[2] * 5 + pixel[3] * 7 + pixel[4] * 11) % 64

InitCache == [k \in 0..63 |-> <<0, 0, 0, 0>>]

\* ------------------------------------------------------------------------
\* QoiEncoder (lines 158-260)
\* ------------------------------------------------------------------------
\* mutant: the predictor starts with alpha 0
EncoderInitZeroAlpha ==
    [previous_pixel |-> <<0, 0, 0, 0>>, cache |-> InitCache,
     x |-> 0, y |-> 0, run |-> 0, eof |-> FALSE]

\* QoiEncoder.__init__ (lines 160-167)
EncoderInit ==
    [previous_pixel |-> <<0, 0, 0, 255>>, cache |-> InitCache,
     x |-> 0, y |-> 0, run |-> 0, eof |-> FALSE]

\* self.im.getpixel((x, y)) of a row-major image, padded with alpha 255 when
\* it has three channels (lines 173-175)
GetPixel(img, x, y) ==
    LET p == img.data[y * img.size[1] + x + 1]
    IN  IF Len(p) = 3 THEN p \o <<255>> ELSE p

\* QoiEncoder._advance_pixel (lines 247-252)
EncAdvancePixel(e, size) ==
    LET x1 == e.x + 1
        x2 == IF x1 >= size[1] THEN 0 ELSE x1
        y2 == IF x1 >= size[1] THEN e.y + 1 ELSE e.y
    IN  [e EXCEPT !.x = x2, !.y = y2, !.eof = (y2 >= size[2])]

\* mutant: the run length stored without the bias of -1
RunByteUnbiased(run) == BitOr(QOI_OP_RUN, run)

\* QOI_OP_RUN | (self.run - 1)  (lines 184, 191, 242)
RunByte(run) == BitOr(QOI_OP_RUN, run - 1)

\* mutant: the run is flushed one pixel early
RunFullEarly(run) == run > 60

\* mutant: the run is flushed one pixel late
RunFullLate(run) == run > 62

\* the test of line 183
RunFull(run) == run > 61

\* the test of line 195
IndexApplies(pixel, cache) == pixel = cache[_pixel_hash(pixel)]

\* mutant: the upper end of the DIFF range is left out
DiffAppliesNarrow(pixel, prev) ==
    LET dr == pixel[1] - prev[1]
        dg == pixel[2] - prev[2]
        db == pixel[3] - prev[3]
    IN  /\ pixel[4] = prev[4]
        /\ \A d \in {dr, dg, db} : (d + 2) % 256 < 3

\* mutant: the deltas are tested as plain differences, without the
\* reduction to 8 bits
DiffAppliesNoWrap(pixel, prev) ==
    LET dr == pixel[1] - prev[1]
        dg == pixel[2] - prev[2]
        db == pixel[3] - prev[3]
    IN  /\ pixel[4] = prev[4]
        /\ \A d \in {dr, dg, db} : 0 <= d + 2 /\ d + 2 < 4

\* the test of lines 200-201
DiffApplies(pixel, prev) ==
    LET dr == pixel[1] - prev[1]
        dg == pixel[2] - prev[2]
        db == pixel[3] - prev[3]
    IN  /\ pixel[4] = prev[4]
        /\ \A d \in {dr, dg, db} : (d + 2) % 256 < 4

\* the test of lines 209-212
LumaApplies(pixel, prev) ==
    LET dr == pixel[1] - prev[1]
        dg == pixel[2] - prev[2]
        db == pixel[3] - prev[3]
    IN  /\ pixel[4] = prev[4]
        /\ (dg + 32) % 256 < 64
        /\ (dr - dg + 8) % 256 < 16
        /\ (db - dg + 8) % 256 < 16

\* mutant: DIFF is tried before INDEX
EncodeOpDiffFirst(pixel, prev, cache) ==
    LET dr == pixel[1] - prev[1]
        dg == pixel[2] - prev[2]
        db == pixel[3] - prev[3]
    IN  IF DiffApplies(pixel, prev)
        THEN [kind |-> "diff",
              bytes |-> << BitOr(BitOr(BitOr(QOI_OP_DIFF, ((dr + 2) % 256) * 16),
                                       ((dg + 2) % 256) * 4),
                                 (db + 2) % 256) >>]
        ELSE IF IndexApplies(pixel, cache)
        THEN [kind |-> "index",
              bytes |-> << BitOr(QOI_OP_INDEX, _pixel_hash(pixel)) >>]
        ELSE IF LumaApplies(pixel, prev)
        THEN [kind |-> "luma",
              bytes |-> << BitOr(QOI_OP_LUMA, (dg + 32) % 256),
                           BitOr(((dr - dg + 8) % 256) * 16, (db - dg + 8) % 256) >>]
        ELSE IF pixel[4] = prev[4]
        THEN [kind |-> "rgb",
              bytes |-> << QOI_OP_RGB, pixel[1], pixel[2], pixel[3] >>]
        ELSE [kind |-> "rgba",
              bytes |-> << QOI_OP_RGBA, pixel[1], pixel[2], pixel[3], pixel[4] >>]

\* the opcode chosen for a pixel that differs from the predictor
\* (lines 195-235): its kind and its bytes
EncodeOp(pixel, prev, cache) ==
    LET dr == pixel[1] - prev[1]
        dg == pixel[2] - prev[2]
        db == pixel[3] - prev[3]
    IN  IF IndexApplies(pixel, cache)
        THEN [kind |-> "index",
              bytes |-> << BitOr(QOI_OP_INDEX, _pixel_hash(pixel)) >>]
        ELSE IF DiffApplies(pixel, prev)
        THEN [kind |-> "diff",
              bytes |-> << BitOr(BitOr(BitOr(QOI_OP_DIFF, ((dr + 2) % 256) * 16),
                                       ((dg + 2) % 256) * 4),
                                 (db + 2) % 256) >>]
        ELSE IF LumaApplies(pixel, prev)
        THEN [kind |-> "luma",
              bytes |-> << BitOr(QOI_OP_LUMA, (dg + 32) % 256),
                           BitOr(((dr - dg + 8) % 256) * 16, (db - dg + 8) % 256) >>]
        ELSE IF pixel[4] = prev[4]
        THEN [kind |-> "rgb",
              bytes |-> << QOI_OP_RGB, pixel[1], pixel[2], pixel[3] >>]
        ELSE [kind |-> "rgba",
              bytes |-> << QOI_OP_RGBA, pixel[1], pixel[2], pixel[3], pixel[4] >>]

\* mutant: a pixel of a run is entered in the cache
EncodePixelRunCaches(e, img, buf) ==
    LET pixel == GetPixel(img, e.x, e.y)
        prev  == e.previous_pixel
    IN  IF pixel = prev
        THEN LET run1  == e.run + 1
                 full  == RunFull(run1)
                 flush == IF full THEN << RunByte(run1) >> ELSE << >>
                 e1    == [e EXCEPT !.run = IF full THEN 0 ELSE run1,
                                    !.cache[_pixel_hash(pixel)] = pixel]
             IN  [e   |-> EncAdvancePixel(e1, img.size),
                  buf |-> buf \o flush,
                  rec |-> [pixel |-> pixel, prev |-> prev, kind |-> "run",
                           flush |-> flush, op |-> << >>, run |-> e1.run,
                           cache |-> e1.cache]]
        ELSE LET flush == IF e.run # 0 THEN << RunByte(e.run) >> ELSE << >>
                 op    == EncodeOp(pixel, prev, e.cache)
                 e1    == [e EXCEPT !.run = 0,
                                    !.cache[_pixel_hash(pixel)] = pixel,
                                    !.previous_pixel = pixel]
             IN  [e   |-> EncAdvancePixel(e1, img.size),
                  buf |-> (buf \o flush) \o op.bytes,
                  rec |-> [pixel |-> pixel, prev |-> prev, kind |-> op.kind,
                           flush |-> flush, op |-> op.bytes, run |-> 0,
                           cache |-> e1.cache]]

\* mutant: a pixel equal to the predictor is encoded like any other pixel
EncodePixelNoRun(e, img, buf) ==
    LET pixel == GetPixel(img, e.x, e.y)
        prev  == e.previous_pixel
        op    == EncodeOp(pixel, prev, e.cache)
        e1    == [e EXCEPT !.run = 0,
                           !.cache[_pixel_hash(pixel)] = pixel,
                           !.previous_pixel = pixel]
    IN  [e   |-> EncAdvancePixel(e1, img.size),
         buf |-> buf \o op.bytes,
         rec |-> [pixel |-> pixel, prev |-> prev, kind |-> op.kind,
                  flush |-> << >>, op |-> op.bytes, run |-> 0,
                  cache |-> e1.cache]]

\* one iteration of the loop of encode (lines 173-239), from encoder state e
\* with buf = buffer[:i]: the new state, the new buffer[:i] and the record
\* of what was done with the pixel
EncodePixel(e, img, buf) ==
    LET pixel == GetPixel(img, e.x, e.y)
        prev  == e.previous_pixel
    IN  IF pixel = prev
        THEN LET run1  == e.run + 1
                 full  == RunFull(run1)
                 flush == IF full THEN << RunByte(run1) >> ELSE << >>
                 e1    == [e EXCEPT !.run = IF full THEN 0 ELSE run1]
             IN  [e   |-> EncAdvancePixel(e1, img.size),
                  buf |-> buf \o flush,
                  rec |-> [pixel |-> pixel, prev |-> prev, kind |-> "run",
                           flush |-> flush, op |-> << >>, run |-> e1.run,
                           cache |-> e.cache]]
        ELSE LET flush == IF e.run # 0 THEN << RunByte(e.run) >> ELSE << >>
                 op    == EncodeOp(pixel, prev, e.cache)
                 e1    == [e EXCEPT !.run = 0,
                                    !.cache[_pixel_hash(pixel)] = pixel,
                                    !.previous_pixel = pixel]
             IN  [e   |-> EncAdvancePixel(e1, img.size),
                  buf |-> (buf \o flush) \o op.bytes,
                  rec |-> [pixel |-> pixel, prev |-> prev, kind |-> op.kind,
                           flush |-> flush, op |-> op.bytes, run |-> 0,
                           cache |-> e1.cache]]

\* mutant: the loop goes on while the write index is inside the buffer
LoopTestNoMargin(e, i, bufsize) == ~e.eof /\ i < bufsize

\* mutant: the loop asks for one more free byte than an iteration needs
LoopTestWide(e, i, bufsize) == ~e.eof /\ i + 7 < bufsize

\* the loop test of line 172, with i the write index
LoopTest(e, i, bufsize) == ~e.eof /\ i + 6 < bufsize

\* the loop test of line 172 and, when it passes, the iteration; l holds the
\* encoder, buffer[:i] and the records of the pixels scanned in this call
EncodeStep(l, img, bufsize) ==
    IF LoopTest(l.e, Len(l.buf), bufsize)
    THEN LET s == EncodePixel(l.e, img, l.buf)
         IN  [e |-> s.e, buf |-> s.buf, recs |-> Append(l.recs, s.rec)]
    ELSE l

\* the while loop of encode (lines 172-239): n times the test and the
\* iteration (once the test fails it keeps failing); evaluated by halves
RECURSIVE EncodeLoop(_, _, _, _)
EncodeLoop(l, img, bufsize, n) ==
    IF n = 0 THEN l
    ELSE IF n = 1 THEN EncodeStep(l, img, bufsize)
    ELSE LET half == EncodeLoop(l, img, bufsize, n \div 2)
         IN  IF ~LoopTest(half.e, Len(half.buf), bufsize) THEN half
             ELSE EncodeLoop(half, img, bufsize, n - (n \div 2))

\* mutant: a run pending at the end of the image is dropped
FinalFlushNone(e) == << >>

\* the flush of a run that is pending at the end of the image (lines 241-243)
FinalFlush(e) == IF e.eof /\ e.run # 0 THEN << RunByte(e.run) >> ELSE << >>

\* mutant: the cache is set up anew by every call
EncodeFreshCache(e, img, bufsize) ==
    LET l    == EncodeLoop([e |-> [e EXCEPT !.cache = InitCache], buf |-> << >>,
                            recs |-> << >>], img, bufsize, img.size[1] * img.size[2])
        tail == FinalFlush(l.e)
    IN  [e |-> l.e, data |-> l.buf \o tail, s |-> IF l.e.eof THEN 1 ELSE 0,
         recs |-> l.recs, tail |-> tail]

\* QoiEncoder.encode(bufsize) (lines 169-245): the state after the call,
\* the bytes buffer[:i] it returns, the status it returns, and the records
\* of the pixels it scanned.  Every iteration scans one pixel, so the loop
\* ends within as many iterations as the image has pixels.
Encode(e, img, bufsize) ==
    LET l    == EncodeLoop([e |-> e, buf |-> << >>, recs |-> << >>], img, bufsize,
                           img.size[1] * img.size[2])
        tail == FinalFlush(l.e)
    IN  [e |-> l.e, data |-> l.buf \o tail, s |-> IF l.e.eof THEN 1 ELSE 0,
         recs |-> l.recs, tail |-> tail]

\* ------------------------------------------------------------------------
\* QoiDecoder (lines 74-155)
\* ------------------------------------------------------------------------
\* the pixel a new image of the mode holds everywhere
BlankPixel(mode) == IF mode = "RGBA" THEN <<0, 0, 0, 0>> ELSE <<0, 0, 0>>

\* QoiDecoder.__init__ (lines 76-81) with the image it is to fill; hist is
\* the cache after each pixel put so far, failed is set when putpixel raised
DecoderInit(mode, size) ==
    [current_pixel |-> <<0, 0, 0, 255>>, cache |-> InitCache, x |-> 0, y |-> 0,
     mode |-> mode, size |-> size,
     im |-> [k \in 1..(size[1] * size[2]) |-> BlankPixel(mode)],
     hist |-> << >>, failed |-> FALSE]

\* QoiDecoder._set_pixel (lines 143-155); putpixel outside the image raises
DecSetPixel(d) ==
    IF d.failed THEN d
    ELSE IF ~(d.x < d.size[1] /\ d.y < d.size[2]) THEN [d EXCEPT !.failed = TRUE]
    ELSE LET px == IF d.mode = "RGBA" THEN d.current_pixel
                   ELSE SubSeq(d.current_pixel, 1, 3)
             x1 == d.x + 1
             wrap == x1 >= d.size[1]
         IN  [d EXCEPT !.im[d.y * d.size[1] + d.x + 1] = px,
                       !.x = IF wrap THEN 0 ELSE x1,
                       !.y = IF wrap THEN d.y + 1 ELSE d.y,
                       !.hist = Append(d.hist, d.cache)]

\* the pixel each opcode resolves to (lines 89-126)
RgbaPixel(buffer, i) ==
    << buffer[i + 2], buffer[i + 3], buffer[i + 4], buffer[i + 5] >>

RgbPixel(cur, buffer, i) ==
    << buffer[i + 2], buffer[i + 3], buffer[i + 4], cur[4] >>

IndexPixel(cache, tag) == cache[LowBits(tag)]

DiffPixel(cur, tag) ==
    LET dr == BitAnd(tag \div 16, 3) - 2
        dg == BitAnd(tag \div 4, 3) - 2
        db == BitAnd(tag, 3) - 2
    IN  << (cur[1] + dr) % 256, (cur[2] + dg) % 256, (cur[3] + db) % 256, cur[4] >>

LumaPixel(cur, tag, diffs) ==
    LET dg == LowBits(tag) - 32
        dr == (diffs \div 16) - 8 + dg
        db == BitAnd(diffs, 15) - 8 + dg
    IN  << (cur[1] + dr) % 256, (cur[2] + dg) % 256, (cur[3] + db) % 256, cur[4] >>

\* mutant: the run stores the pixel in the cache after each put
RECURSIVE DecRunCaching(_, _)
DecRunCaching(d, n) ==
    IF n = 0 \/ d.failed THEN d
    ELSE LET d1 == DecSetPixel(d)
             c  == [d1.cache EXCEPT ![_pixel_hash(d1.current_pixel)] = d1.current_pixel]
             d2 == IF d1.failed THEN d1
                   ELSE [d1 EXCEPT !.cache = c, !.hist[Len(d1.hist)] = c]
         IN  IF d2.failed THEN d2 ELSE DecRunCaching(d2, n - 1)

\* the for loop of lines 128-129: n calls of _set_pixel, no cache update;
\* evaluated by halves
RECURSIVE DecRun(_, _)
DecRun(d, n) ==
    IF n = 0 THEN d
    ELSE IF n = 1 THEN DecSetPixel(d)
    ELSE LET half == DecRun(d, n \div 2)
         IN  IF half.failed THEN half ELSE DecRun(half, n - (n \div 2))

\* mutant: the pixel is stored in the slot of the previous predictor
DecEmitPrevSlot(d, pixel) ==
    LET d1 == DecSetPixel([d EXCEPT !.current_pixel = pixel])
        c  == [d1.cache EXCEPT ![_pixel_hash(d.current_pixel)] = pixel]
    IN  IF d1.failed THEN d1
        ELSE [d1 EXCEPT !.cache = c, !.hist[Len(d1.hist)] = c]

\* lines 133-134 after a single-pixel opcode has set current_pixel: put the
\* pixel, then store it in the cache
DecEmit(d, pixel) ==
    LET d1 == DecSetPixel([d EXCEPT !.current_pixel = pixel])
        c  == [d1.cache EXCEPT ![_pixel_hash(pixel)] = pixel]
    IN  IF d1.failed THEN d1
        ELSE [d1 EXCEPT !.cache = c, !.hist[Len(d1.hist)] = c]

\* the test of line 86
AtEofMarker(buffer, i) == Slice(buffer, i, i + 8) = QOI_EOF_MARKER

\* the loop test of line 85 and, when it passes, the iteration (lines
\* 86-134); l holds the decoder, the offset i, and whether decode returned
\* (by line 87 with n = -1, by line 135 with n = i, or by an exception)
DecodeStep(l, buffer) ==
    LET d == l.d
        i == l.i
    IN  IF l.done THEN l
        ELSE IF ~(i + 5 < Len(buffer)) THEN [l EXCEPT !.done = TRUE, !.n = i]
        ELSE IF AtEofMarker(buffer, i) THEN [l EXCEPT !.done = TRUE, !.n = -1]
        ELSE LET tag == buffer[i + 1]
                 r ==
                    IF tag = QOI_OP_RGBA
                    THEN [d |-> DecEmit(d, RgbaPixel(buffer, i)), i |-> i + 5]
                    ELSE IF tag = QOI_OP_RGB
                    THEN [d |-> DecEmit(d, RgbPixel(d.current_pixel, buffer, i)),
                          i |-> i + 4]
                    ELSE IF BitAnd(tag, QOI_OP_MASK) = QOI_OP_INDEX
                    THEN [d |-> DecEmit(d, IndexPixel(d.cache, tag)), i |-> i + 1]
                    ELSE IF BitAnd(tag, QOI_OP_MASK) = QOI_OP_DIFF
                    THEN [d |-> DecEmit(d, DiffPixel(d.current_pixel, tag)),
                          i |-> i + 1]
                    ELSE IF BitAnd(tag, QOI_OP_MASK) = QOI_OP_LUMA
                    THEN [d |-> DecEmit(d, LumaPixel(d.current_pixel, tag,
                                                     buffer[i + 2])),
                          i |-> i + 2]
                    ELSE [d |-> DecRun(d, LowBits(tag) + 1), i |-> i + 1]
             IN  [d |-> r.d, i |-> r.i, done |-> r.d.failed, n |-> r.i]

\* the while loop of decode: n times the test and the iteration; evaluated
\* by halves
RECURSIVE DecodeLoop(_, _, _)
DecodeLoop(l, buffer, n) ==
    IF n = 0 THEN l
    ELSE IF n = 1 THEN DecodeStep(l, buffer)
    ELSE LET half == DecodeLoop(l, buffer, n \div 2)
         IN  IF half.done THEN half ELSE DecodeLoop(half, buffer, n - (n \div 2))

\* QoiDecoder.decode(buffer) (lines 83-135): the decoder after the call and
\* the first value returned.  Every iteration consumes a byte, so the loop
\* has returned after Len(buffer) + 1 rounds of test and iteration.
Decode(d, buffer) ==
    DecodeLoop([d |-> d, i |-> 0, done |-> FALSE, n |-> 0], buffer, Len(buffer) + 1)

\* ------------------------------------------------------------------------
\* Inputs: the images that are saved and the files that are given
\* ------------------------------------------------------------------------
PaletteRGBA ==
    { <<0, 0, 0, 255>>, <<0, 0, 0, 0>>, <<0, 0, 0, 64>>, <<1, 0, 0, 255>>,
      <<10, 20, 30, 255>> }

PaletteRGB ==
    { <<0, 0, 0>>, <<255, 255, 255>>, <<10, 12, 9>>, <<10, 20, 30>> }

Sizes(n) == { <<w, n \div w>> : w \in { v \in 1..n : n % v = 0 } }

SmallImages(mode, palette) ==
    UNION { { [mode |-> mode, size |-> sz, data |-> dt] :
                sz \in Sizes(n), dt \in [1..n -> palette] } : n \in 1..MaxLen }

RunLens == { k * 62 + r : k \in 1..RunBlocks, r \in {-1, 0, 1} \cup (6..RunRest) }

RunPixels == { <<0, 0, 0, 255>>, <<10, 20, 30, 255>> }

RunTails == { << >>, << <<0, 0, 0, 0>> >>, << <<1, 0, 0, 255>> >> }

RunImages ==
    { [mode |-> "RGBA", size |-> <<n + Len(t), 1>>,
       data |-> [k \in 1..n |-> p] \o t] :
        n \in RunLens, p \in RunPixels, t \in RunTails }

EmptyImages ==
    { [mode |-> m, size |-> sz, data |-> << >>] :
        m \in {"RGB", "RGBA"}, sz \in { <<0, 0>>, <<0, 1>>, <<1, 0>> } }

OtherModeImages ==
    { [mode |-> "L", size |-> <<1, 1>>, data |-> << <<7>> >>],
      [mode |-> "L", size |-> <<0, 0>>, data |-> << >>],
      [mode |-> "LA", size |-> <<1, 1>>, data |-> << <<7, 255>> >>] }

Images ==
    SmallImages("RGBA", PaletteRGBA) \cup SmallImages("RGB", PaletteRGB)
        \cup RunImages \cup EmptyImages \cup OtherModeImages

NoImage == [mode |-> "none", size |-> <<0, 0>>, data |-> << >>]

\* the 14 bytes _save writes first (lines 266-271)
Header(img) ==
    QOI_MAGIC \o PackU32(img.size[1]) \o PackU32(img.size[2])
        \o << IF img.mode = "RGBA" THEN 4 ELSE 3 >> \o << QOI_HEADER_SRGB >>

\* opcodes of a given file: INDEX 0, DIFF (+1,+1,+1), LUMA, RGB, RGBA, RUN 2
GivenOps ==
    { <<0>>, <<127>>, <<165, 121>>, <<254, 1, 2, 3>>, <<255, 1, 2, 3, 4>>, <<193>> }

RECURSIVE Flatten(_)
Flatten(ss) == IF ss = << >> THEN << >> ELSE Head(ss) \o Flatten(Tail(ss))

GivenFiles ==
    { Header([mode |-> m, size |-> sz, data |-> << >>]) \o Flatten(ops) \o end :
        m \in {"RGB", "RGBA"},
        sz \in { <<1, 1>>, <<2, 1>>, <<1, 2>> },
        ops \in UNION { [1..n -> GivenOps] : n \in 0..MaxOps },
        end \in { QOI_EOF_MARKER, << >> } }

\* ------------------------------------------------------------------------
\* State
\* ------------------------------------------------------------------------
VARIABLES
    pc,        \* where the session is
    img,       \* the image being saved (NoImage when the file was given)
    fp,        \* the bytes of the file
    enc,       \* the QoiEncoder
    enc_recs,  \* history: one record per pixel the encoder scanned
    calls,     \* history: the number of encode calls made
    dec,       \* the QoiDecoder with the image it fills
    pos,       \* read offset of the loader in the file
    b,         \* bytes read and not yet consumed by decode
    err        \* the exception that ended the session, or "none"

vars == << pc, img, fp, enc, enc_recs, calls, dec, pos, b, err >>

NoEncoder == "deleted"
NoDecoder == "none"

Init ==
    /\ \/ /\ img \in Images
          /\ pc = "start"
          /\ fp = << >>
       \/ /\ img = NoImage
          /\ pc = "saved"
          /\ fp \in GivenFiles
    /\ enc = NoEncoder
    /\ enc_recs = << >>
    /\ calls = 0
    /\ dec = NoDecoder
    /\ pos = 0
    /\ b = << >>
    /\ err = "none"

\* ------------------------------------------------------------------------
\* _save (lines 263-293)
\* ------------------------------------------------------------------------
\* lines 264-278: the mode check, the header, the encoder
SaveBegin ==
    /\ pc = "start"
    /\ IF img.mode \notin {"RGB", "RGBA"}
       THEN /\ pc' = "save_error"
            /\ err' = "ValueError"
            /\ UNCHANGED << fp, enc >>
       ELSE /\ fp' = fp \o Header(img)
            /\ enc' = EncoderInit
            /\ pc' = "encoding"
            /\ err' = "none"
    /\ UNCHANGED << img, enc_recs, calls, dec, pos, b >>

\* the buffer sizes encode is called with: small ones, and MAXBLOCK
BufSizes == (7..MaxBuf) \cup {MAXBLOCK}

\* lines 280-289: one round of the loop, encoder.encode(bufsize) and the
\* write of what it returned; an image without pixels has no pixel (0, 0)
\* to get and the exception leaves through the finally clause
SaveEncode(bufsize) ==
    /\ pc = "encoding"
    /\ IF img.size[1] * img.size[2] = 0
       THEN /\ pc' = "save_error"
            /\ err' = "IndexError"
            /\ enc' = NoEncoder
            /\ UNCHANGED << fp, enc_recs, calls >>
       ELSE LET r == Encode(enc, img, bufsize)
            IN  /\ fp' = fp \o r.data
                /\ enc' = r.e
                /\ enc_recs' = enc_recs \o r.recs
                /\ calls' = calls + 1
                /\ pc' = IF r.s # 0 THEN "encoded" ELSE "encoding"
                /\ err' = "none"
    /\ UNCHANGED << img, dec, pos, b >>

\* lines 289-293: cleanup and the end marker
SaveEnd ==
    /\ pc = "encoded"
    /\ enc' = NoEncoder
    /\ fp' = fp \o QOI_EOF_MARKER
    /\ pc' = "saved"
    /\ UNCHANGED << img, enc_recs, calls, dec, pos, b, err >>

\* ------------------------------------------------------------------------
\* Opening and loading a file
\* ------------------------------------------------------------------------
\* _accept and QoiImageFile._open (lines 49-50, 62-71)
Open ==
    /\ pc = "saved"
    /\ _accept(fp)
    /\ LET size == << UnpackU32(SubSeq(fp, 5, 8)), UnpackU32(SubSeq(fp, 9, 12)) >>
           channels == fp[13]
           mode == IF channels = QOI_HEADER_RGB THEN "RGB" ELSE "RGBA"
       IN  dec' = DecoderInit(mode, size)
    /\ pos' = 14
    /\ b' = << >>
    /\ pc' = "loading"
    /\ UNCHANGED << img, fp, enc, enc_recs, calls, err >>

\* the loader reads the next k bytes of the file, hands them with the
\* unconsumed bytes to decode (lines 83-135) and drops what decode consumed
LoadRead(k) ==
    /\ pc = "loading"
    /\ pos < Len(fp)
    /\ k >= 1
    /\ LET chunk  == Slice(fp, pos, pos + k)
           buffer == b \o chunk
           r      == Decode(dec, buffer)
       IN  /\ dec' = r.d
           /\ pos' = pos + Len(chunk)
           /\ IF r.d.failed
              THEN pc' = "load_error" /\ err' = "IndexError" /\ b' = buffer
              ELSE IF r.n < 0
              THEN pc' = "loaded" /\ err' = "none" /\ b' = buffer
              ELSE pc' = "loading" /\ err' = "none"
                   /\ b' = Slice(buffer, r.n, Len(buffer))
    /\ UNCHANGED << img, fp, enc, enc_recs, calls >>

\* the file ends and decode has not returned the end status (line 87)
LoadEof ==
    /\ pc = "loading"
    /\ pos >= Len(fp)
    /\ pc' = "load_error"
    /\ err' = "truncated"
    /\ UNCHANGED << img, fp, enc, enc_recs, calls, dec, pos, b >>

Next ==
    \/ SaveBegin
    \/ \E bufsize \in BufSizes : SaveEncode(bufsize)
    \/ SaveEnd
    \/ Open
    \/ LoadRead(Len(fp))
    \/ LoadEof

Spec == Init /\ [][Next]_vars

\* the loader with a small block size: every read delivers 1..MaxChunk
\* bytes (ImageFile.load reads the file block by block; lines 83-135 are
\* called once per block with the unconsumed bytes in front)
NextChunked ==
    \/ SaveBegin
    \/ \E bufsize \in BufSizes : SaveEncode(bufsize)
    \/ SaveEnd
    \/ Open
    \/ \E k \in 1..MaxChunk : LoadRead(k)
    \/ LoadEof

SpecChunked == Init /\ [][NextChunked]_vars

\* ------------------------------------------------------------------------
\* Properties
\* ------------------------------------------------------------------------
\* the image of the session can be saved: a supported mode and some pixel
ValidImage == img.mode \in {"RGB", "RGBA"} /\ img.size[1] * img.size[2] > 0

NumPixels == img.size[1] * img.size[2]

\* the opcode bytes of the file: what lies between header and end marker
Opcodes == Slice(fp, 14, Len(fp) - 8)

\* C1 -- Round trip: loading the file that save wrote for an image with a
\* supported mode and at least one pixel ends without error and yields the
\* same size, mode and pixels in row-major order, alpha included; a
\* three-channel image is encoded with alpha 255 for every pixel and its
\* three colour channels come back.
C1_RoundTrip ==
    (img # NoImage /\ pc \in {"loaded", "load_error"}) =>
        /\ pc = "loaded"
        /\ dec.mode = img.mode
        /\ dec.size = img.size
        /\ Len(dec.hist) = NumPixels
        /\ \A k \in 1..NumPixels : dec.im[k] = img.data[k]
        /\ img.mode = "RGB" =>
              /\ \A k \in 1..NumPixels : enc_recs[k].pixel[4] = 255
              /\ dec.current_pixel[4] = 255

C1_Witness ==
    /\ pc = "loaded"
    /\ img.mode = "RGBA"
    /\ NumPixels = 3
    /\ img.data[1] = <<0, 0, 0, 64>>
    /\ img.data[2] = <<0, 0, 0, 64>>
    /\ img.data[3] = <<1, 0, 0, 255>>
    /\ dec.im = img.data

\* C2 -- Resumable encoding: whatever buffer sizes (each at least 7) the
\* successive encode calls were given, when the call that reports end of
\* image has returned, the bytes written after the header are those of one
\* encode call with a buffer that holds the whole image, the encoder is in
\* the state that one call leaves, and every pixel was scanned exactly once
\* and in order.
C2_Resumable ==
    (pc = "encoded") =>
        LET one == Encode(EncoderInit, img, MAXBLOCK)
        IN  /\ one.s = 1
            /\ fp = Header(img) \o one.data
            /\ enc = one.e
            /\ Len(enc_recs) = NumPixels
            /\ \A k \in 1..NumPixels :
                  enc_recs[k].pixel
                      = GetPixel(img, (k - 1) % img.size[1], (k - 1) \div img.size[1])

C2_Witness ==
    /\ pc = "encoded"
    /\ calls = 3
    /\ NumPixels = 3
    /\ enc_recs[3].op = << _pixel_hash(enc_recs[3].pixel) >>
    /\ enc_recs[2].op # << >>

\* the cache the encoder held when it scanned pixel k
CacheBefore(k) == IF k = 1 THEN InitCache ELSE enc_recs[k - 1].cache

\* which opcodes make the decoder produce pixel from predictor prev and cache
CanIndexAny(pixel, cache) ==
    \E slot \in 0..63 : IndexPixel(cache, QOI_OP_INDEX + slot) = pixel

CanIndexHash(pixel, cache) ==
    IndexPixel(cache, QOI_OP_INDEX + _pixel_hash(pixel)) = pixel

CanDiff(pixel, prev) ==
    \E t \in 0..63 : DiffPixel(prev, QOI_OP_DIFF + t) = pixel

CanLuma(pixel, prev) ==
    \E t \in 0..63 :
        /\ LumaPixel(prev, QOI_OP_LUMA + t, 0)[2] = pixel[2]
        /\ \E hi \in 0..15 :
              /\ LumaPixel(prev, QOI_OP_LUMA + t, hi * 16)[1] = pixel[1]
              /\ \E lo \in 0..15 : LumaPixel(prev, QOI_OP_LUMA + t, hi * 16 + lo) = pixel

CanRgb(pixel, prev) ==
    RgbPixel(prev, << QOI_OP_RGB, pixel[1], pixel[2], pixel[3] >>, 0) = pixel

\* the length of the shortest opcode that produces pixel, with INDEX through
\* any slot (any = TRUE) or through the slot of the pixel's hash only
ShortestLen(pixel, prev, cache, any) ==
    IF \/ (any /\ CanIndexAny(pixel, cache))
       \/ CanIndexHash(pixel, cache)
       \/ CanDiff(pixel, prev)
    THEN 1
    ELSE IF CanLuma(pixel, prev) THEN 2
    ELSE IF CanRgb(pixel, prev) THEN 4
    ELSE 5

\* C3 as claimed -- Smallest applicable encoding: the opcode of every pixel
\* that does not extend a run is no longer than any opcode that produces
\* the pixel, INDEX through any of the 64 slots included.
C3_SmallestAnySlot ==
    (pc = "encoded") =>
        \A k \in 1..Len(enc_recs) :
            enc_recs[k].op # << >> =>
                Len(enc_recs[k].op)
                    <= ShortestLen(enc_recs[k].pixel, enc_recs[k].prev, CacheBefore(k), TRUE)

\* C3 as amended -- the opcode of every pixel that does not extend a run is
\* no longer than any of: INDEX through the slot hash(pixel) when that slot
\* holds the pixel, DIFF, LUMA, RGB, RGBA.
C3_SmallestHashSlot ==
    (pc = "encoded") =>
        \A k \in 1..Len(enc_recs) :
            enc_recs[k].op # << >> =>
                Len(enc_recs[k].op)
                    <= ShortestLen(enc_recs[k].pixel, enc_recs[k].prev, CacheBefore(k), FALSE)

C3_Witness ==
    /\ pc = "encoded"
    /\ \E k \in 1..Len(enc_recs) :
          /\ enc_recs[k].op # << >>
          /\ CanIndexAny(enc_recs[k].pixel, CacheBefore(k))
          /\ ~CanIndexHash(enc_recs[k].pixel, CacheBefore(k))
          /\ Len(enc_recs[k].op) = 5
    /\ \E k \in 1..Len(enc_recs) : Len(enc_recs[k].op) = 1

\* the kind of an opcode, read from its tag byte (lines 39-45)
OpKind(op) ==
    IF op = << >> THEN "none"
    ELSE IF op[1] = QOI_OP_RGB THEN "rgb"
    ELSE IF op[1] = QOI_OP_RGBA THEN "rgba"
    ELSE IF op[1] \div 64 = 0 THEN "index"
    ELSE IF op[1] \div 64 = 1 THEN "diff"
    ELSE IF op[1] \div 64 = 2 THEN "luma"
    ELSE "run"

\* the number of pixels the opcodes from offset i on stand for
RECURSIVE Coverage(_, _)
Coverage(ops, i) ==
    IF i >= Len(ops) THEN 0
    ELSE LET kind == OpKind(<< ops[i + 1] >>)
         IN  IF kind = "rgba" THEN 1 + Coverage(ops, i + 5)
             ELSE IF kind = "rgb" THEN 1 + Coverage(ops, i + 4)
             ELSE IF kind = "luma" THEN 1 + Coverage(ops, i + 2)
             ELSE IF kind = "run" THEN (ops[i + 1] % 64) + 1 + Coverage(ops, i + 1)
             ELSE 1 + Coverage(ops, i + 1)

\* the session has written the whole file of its image
Saved == img # NoImage /\ pc \in {"saved", "loading", "loaded", "load_error"}

C4Image ==
    [mode |-> "RGBA", size |-> <<2, 1>>,
     data |-> << <<10, 20, 30, 255>>, <<10, 20, 30, 255>> >>]

\* C4 as claimed -- End-to-end example: the 2x1 RGBA image of two pixels
\* (10,20,30,255) is saved as header, one RUN opcode of length 2, end marker.
C4_OneRunOfTwo ==
    (Saved /\ img = C4Image) =>
        fp = <<113, 111, 105, 102, 0, 0, 0, 2, 0, 0, 0, 1, 4, 0>>
                \o <<193>> \o <<0, 0, 0, 0, 0, 0, 0, 1>>

\* C4 as amended -- the 2x1 RGBA image of two pixels (10,20,30,255) is saved
\* as header, the RGB opcode FE 0A 14 1E of the first pixel, one RUN opcode
\* of length 1 (C0), end marker, and loading that file gives the two pixels.
C4_RgbThenRunOfOne ==
    (Saved /\ img = C4Image) =>
        /\ fp = <<113, 111, 105, 102, 0, 0, 0, 2, 0, 0, 0, 1, 4, 0>>
                   \o <<254, 10, 20, 30, 192>> \o <<0, 0, 0, 0, 0, 0, 0, 1>>
        /\ pc \in {"loaded", "load_error"} =>
              /\ pc = "loaded"
              /\ dec.size = <<2, 1>>
              /\ dec.im = << <<10, 20, 30, 255>>, <<10, 20, 30, 255>> >>

C4_Witness == img = C4Image /\ pc = "loaded" /\ Len(dec.hist) = 2

\* the image is 62 equal pixels followed by one other pixel
Is62ThenOne ==
    /\ img.mode = "RGBA"
    /\ img.size = <<63, 1>>
    /\ \A k \in 1..62 : img.data[k] = img.data[1]
    /\ img.data[63] # img.data[1]

\* C5 as claimed -- Run boundary: 62 pixels p followed by one pixel q # p
\* are encoded as one RUN opcode of length 62 (FD) and the opcode of q.
C5_OneRunOf62 ==
    (Saved /\ Is62ThenOne) =>
        /\ OpKind(enc_recs[63].op) \notin {"none", "run"}
        /\ Opcodes = <<253>> \o enc_recs[63].op

\* C5 as amended -- when p is the initial predictor (0,0,0,255) the opcodes
\* are one RUN of length 62 (FD) and the opcode of q; for any other p they
\* are the opcode of the first p, one RUN of length 61 (FC) and the opcode
\* of q.  There is exactly one RUN opcode in both cases.
C5_RunOf62Or61 ==
    (Saved /\ Is62ThenOne) =>
        /\ OpKind(enc_recs[63].op) \notin {"none", "run"}
        /\ IF img.data[1] = <<0, 0, 0, 255>>
           THEN Opcodes = <<253>> \o enc_recs[63].op
           ELSE /\ OpKind(enc_recs[1].op) \notin {"none", "run"}
                /\ Opcodes = (enc_recs[1].op \o <<252>>) \o enc_recs[63].op

C5_Witness ==
    /\ Saved
    /\ Is62ThenOne
    /\ img.data[1] # <<0, 0, 0, 255>>
    /\ pc = "loaded"

\* the image is 130 equal pixels
Is130Equal ==
    /\ img.mode = "RGBA"
    /\ img.size = <<130, 1>>
    /\ \A k \in 1..130 : img.data[k] = img.data[1]

\* C6 -- Run overflow: 130 equal pixels are encoded as opcodes that stand
\* for exactly 130 pixels, as RUN 62, RUN 62, RUN 6 when the pixel is the
\* initial predictor, and loading the file gives exactly 130 pixels, all
\* equal to that pixel.
C6_RunOverflow ==
    (Saved /\ Is130Equal) =>
        /\ Coverage(Opcodes, 0) = 130
        /\ img.data[1] = <<0, 0, 0, 255>> => Opcodes = <<253, 253, 197>>
        /\ pc \in {"loaded", "load_error"} =>
              /\ pc = "loaded"
              /\ Len(dec.hist) = 130
              /\ \A k \in 1..130 : dec.im[k] = img.data[1]

C6_Witness ==
    /\ Saved
    /\ Is130Equal
    /\ pc = "loaded"
    /\ Opcodes = <<253, 253, 197>>

\* the difference a - b of two channel values as a signed 8-bit value
SignedDelta(to, from) == ((to - from + 128) % 256) - 128

SmallDeltas(pixel, prev) ==
    \A c \in 1..3 : SignedDelta(pixel[c], prev[c]) \in -2..1

LumaDeltas(pixel, prev) ==
    LET dr == SignedDelta(pixel[1], prev[1])
        dg == SignedDelta(pixel[2], prev[2])
        db == SignedDelta(pixel[3], prev[3])
    IN  dg \in -32..31 /\ (dr - dg) \in -8..7 /\ (db - dg) \in -8..7

\* C7 -- Opcode priority: a pixel that differs from the predictor and
\* equals cache[hash(pixel)] is encoded as INDEX with that hash, whatever
\* else applies; DIFF is emitted only when INDEX does not apply, alpha is
\* unchanged and the deltas are in -2..1; LUMA only when neither INDEX nor
\* DIFF applies; RGB only when none of those applies and alpha is
\* unchanged; RGBA only when alpha changed and INDEX does not apply.
C7_Priority ==
    (pc = "encoded") =>
        \A k \in 1..Len(enc_recs) :
            LET px    == enc_recs[k].pixel
                pv    == enc_recs[k].prev
                op    == enc_recs[k].op
                kind  == OpKind(op)
                idx   == px = CacheBefore(k)[_pixel_hash(px)]
                sameA == px[4] = pv[4]
                diff  == sameA /\ SmallDeltas(px, pv)
                luma  == sameA /\ LumaDeltas(px, pv)
            IN  IF px = pv THEN op = << >>
                ELSE /\ kind \in {"index", "diff", "luma", "rgb", "rgba"}
                     /\ idx => op = << _pixel_hash(px) >>
                     /\ kind = "index" => idx
                     /\ kind = "diff" => ~idx /\ diff
                     /\ kind = "luma" => ~idx /\ ~diff /\ luma
                     /\ kind = "rgb" => ~idx /\ ~diff /\ ~luma /\ sameA
                     /\ kind = "rgba" => ~idx /\ ~sameA

C7_Witness ==
    /\ pc = "encoded"
    /\ \E k \in 1..Len(enc_recs) :
          /\ enc_recs[k].pixel # enc_recs[k].prev
          /\ enc_recs[k].pixel = CacheBefore(k)[_pixel_hash(enc_recs[k].pixel)]
          /\ enc_recs[k].pixel[4] = enc_recs[k].prev[4]
          /\ SmallDeltas(enc_recs[k].pixel, enc_recs[k].prev)
          /\ enc_recs[k].op = << _pixel_hash(enc_recs[k].pixel) >>

\* C8 -- Cache determinism: when the file that was saved is loaded, the
\* decoder's cache after its k-th pixel is the encoder's cache after its
\* k-th pixel, for every k, and the two caches are equal at the end.
C8_CacheDeterminism ==
    (img # NoImage /\ pc \in {"loaded", "load_error"}) =>
        /\ Len(dec.hist) <= Len(enc_recs)
        /\ \A k \in 1..Len(dec.hist) : dec.hist[k] = enc_recs[k].cache
        /\ pc = "loaded" =>
              /\ Len(dec.hist) = NumPixels
              /\ Len(enc_recs) = NumPixels
              /\ dec.cache = enc_recs[NumPixels].cache

C8_Witness ==
    /\ img # NoImage
    /\ pc = "loaded"
    /\ dec.cache # InitCache
    /\ enc_recs[1].op = << >>
    /\ \E k \in 1..Len(enc_recs) : OpKind(enc_recs[k].op) = "index"
    /\ \E k \in 1..Len(enc_recs) : OpKind(enc_recs[k].op) = "rgba"

\* C9 as claimed -- Encoder precondition failures produce no output: when
\* save fails on an unsupported mode or on an image without pixels, no byte
\* has been written.
C9_NoOutputOnFailure == (pc = "save_error") => fp = << >>

\* C10 as claimed -- Premature end marker is a failure: loading never ends
\* successfully with fewer pixels produced than width * height.
C10_NoShortFrame ==
    (pc = "loaded") => Len(dec.hist) = dec.size[1] * dec.size[2]

\* the pixels the bytes emitted for scanned pixel k stand for
RecCoverage(k) ==
    Coverage(enc_recs[k].flush, 0) + (IF enc_recs[k].op # << >> THEN 1 ELSE 0)

\* the pixels the bytes emitted for scanned pixels lo..hi stand for
RECURSIVE SumCoverage(_, _)
SumCoverage(lo, hi) ==
    IF lo > hi THEN 0
    ELSE IF lo = hi THEN RecCoverage(lo)
    ELSE SumCoverage(lo, (lo + hi) \div 2) + SumCoverage(((lo + hi) \div 2) + 1, hi)

\* C11 -- Stream structure and pixel coverage: once the save of a valid
\* image is complete the file is the 14-byte header, opcodes that stand for
\* exactly width * height pixels, and the 8-byte end marker with nothing
\* after it; a run pending at the last pixel is flushed before the marker.
\* During encoding the pixels the emitted opcodes stand for plus the
\* pending run counter equal the pixels scanned: at every return of encode,
\* and pixel by pixel (the pixels the bytes of one iteration stand for plus
\* the change of the run counter are one pixel, starting from 0 and 0).
C11_StructureAndCoverage ==
    /\ Saved =>
          /\ Len(fp) >= 14 + 1 + 8
          /\ Slice(fp, 0, 4) = <<113, 111, 105, 102>>
          /\ Slice(fp, 4, 8) = <<0, 0, 0, img.size[1]>>
          /\ Slice(fp, 8, 12) = <<0, 0, 0, img.size[2]>>
          /\ fp[13] = (IF img.mode = "RGBA" THEN 4 ELSE 3)
          /\ fp[14] = 0
          /\ Coverage(Opcodes, 0) = NumPixels
          /\ Slice(fp, Len(fp) - 8, Len(fp)) = <<0, 0, 0, 0, 0, 0, 0, 1>>
          /\ enc_recs[NumPixels].run # 0 =>
                fp[Len(fp) - 8] = 192 + enc_recs[NumPixels].run - 1
    /\ pc = "encoding" =>
          Coverage(Slice(fp, 14, Len(fp)), 0) + enc.run = Len(enc_recs)
    /\ pc = "encoded" =>
          /\ Coverage(Slice(fp, 14, Len(fp)), 0) = NumPixels
          /\ SumCoverage(1, Len(enc_recs)) + enc_recs[Len(enc_recs)].run = NumPixels
          /\ \A k \in 1..Len(enc_recs) :
                RecCoverage(k) + enc_recs[k].run
                    = (IF k = 1 THEN 0 ELSE enc_recs[k - 1].run) + 1

C11_Witness ==
    /\ Saved
    /\ pc = "saved"
    /\ NumPixels = 130
    /\ enc_recs[NumPixels].run = 5
    /\ fp[Len(fp) - 8] = 196

\* C12 -- Run cap: the run counter is in 0..61 after every iteration of the
\* loop (so at the start of the next) and at every return of encode before
\* the end of the image; when a run pixel brings the counter to 62 a RUN
\* opcode FD is emitted in that iteration and the counter is 0 after it;
\* every RUN byte emitted is in C0..FD.
C12_RunCap ==
    /\ pc = "encoding" => enc.run \in 0..61
    /\ pc \in {"encoding", "encoded"} =>
          \A k \in 1..Len(enc_recs) :
              LET before == IF k = 1 THEN 0 ELSE enc_recs[k - 1].run
                  r      == enc_recs[k]
              IN  /\ r.run \in 0..61
                  /\ (r.op = << >> /\ before + 1 = 62) =>
                        (r.flush = <<253>> /\ r.run = 0)
                  /\ (r.op = << >> /\ before + 1 < 62) =>
                        (r.flush = << >> /\ r.run = before + 1)
                  /\ r.flush # << >> => (Len(r.flush) = 1 /\ r.flush[1] \in 192..253)
    /\ (pc = "encoded" /\ enc.run # 0) =>
          (enc.run \in 1..61 /\ fp[Len(fp)] = 192 + enc.run - 1)

C12_Witness ==
    /\ pc = "encoded"
    /\ \E k \in 1..Len(enc_recs) :
          /\ enc_recs[k].op = << >>
          /\ enc_recs[k].flush = <<253>>
          /\ enc_recs[k].run = 0
          /\ k > 62
    /\ enc.run = 1

\* C13 -- Wraparound deltas: with d_c the signed 8-bit difference of a
\* channel (-128..127), for a pixel that differs from the predictor, to
\* which INDEX does not apply and whose alpha is unchanged: DIFF is emitted
\* exactly when dr, dg, db are all in -2..1 (255 -> 0 is +1, 0 -> 255 is
\* -1); otherwise LUMA is emitted exactly when dg is in -32..31 and dr - dg,
\* db - dg are in -8..7; the fields are the biased deltas (+2, +32, +8) and
\* each lies within its 2-bit, 6-bit or 4-bit field.
C13_WrapDeltas ==
    (pc = "encoded") =>
        \A k \in 1..Len(enc_recs) :
            LET px    == enc_recs[k].pixel
                pv    == enc_recs[k].prev
                op    == enc_recs[k].op
                kind  == OpKind(op)
                idx   == px = CacheBefore(k)[_pixel_hash(px)]
                dr    == SignedDelta(px[1], pv[1])
                dg    == SignedDelta(px[2], pv[2])
                db    == SignedDelta(px[3], pv[3])
                small == dr \in -2..1 /\ dg \in -2..1 /\ db \in -2..1
                luma  == dg \in -32..31 /\ (dr - dg) \in -8..7 /\ (db - dg) \in -8..7
            IN  (px # pv /\ ~idx /\ px[4] = pv[4]) =>
                    /\ kind = "diff" <=> small
                    /\ ~small => (kind = "luma" <=> luma)
                    /\ kind = "diff" =>
                          /\ dr + 2 \in 0..3 /\ dg + 2 \in 0..3 /\ db + 2 \in 0..3
                          /\ op = << 64 + (dr + 2) * 16 + (dg + 2) * 4 + (db + 2) >>
                    /\ kind = "luma" =>
                          /\ dg + 32 \in 0..63
                          /\ dr - dg + 8 \in 0..15
                          /\ db - dg + 8 \in 0..15
                          /\ op = << 128 + (dg + 32),
                                     (dr - dg + 8) * 16 + (db - dg + 8) >>

C13_Witness ==
    /\ pc = "encoded"
    /\ \E k \in 1..Len(enc_recs) :
          /\ OpKind(enc_recs[k].op) = "diff"
          /\ enc_recs[k].pixel[1] - enc_recs[k].prev[1] \in {255, -255}
    /\ \E k \in 1..Len(enc_recs) :
          /\ OpKind(enc_recs[k].op) = "luma"
          /\ enc_recs[k].pixel[1] - enc_recs[k].prev[1] < -128

\* the number of bytes of the opcode that starts with byte tag
OpLength(tag) ==
    IF tag = 255 THEN 5
    ELSE IF tag = 254 THEN 4
    ELSE IF tag \div 64 = 2 THEN 2
    ELSE 1

\* l.i is the offset of an opcode of ops or the end of ops: note it and go
\* to the next opcode
ParseStep(l, ops) ==
    IF l.i >= Len(ops) THEN l
    ELSE [i |-> l.i + OpLength(ops[l.i + 1]), starts |-> Append(l.starts, l.i)]

\* n times ParseStep, evaluated by halves
RECURSIVE ParseLoop(_, _, _)
ParseLoop(l, ops, n) ==
    IF n = 0 THEN l
    ELSE IF n = 1 THEN ParseStep(l, ops)
    ELSE LET half == ParseLoop(l, ops, n \div 2)
         IN  IF half.i >= Len(ops) THEN half
             ELSE ParseLoop(half, ops, n - (n \div 2))

\* the offsets in ops, from offset i on, at which an opcode starts
OpStarts(ops, i) == ParseLoop([i |-> i, starts |-> << >>], ops, Len(ops)).starts

\* the first byte of the last opcode of ops (ops not empty)
LastTag(ops) == ops[OpStarts(ops, 0)[Len(OpStarts(ops, 0))] + 1]

\* C14 -- Decoder RUN updates the cache: when the last opcode the decoder
\* has processed is a RUN, slot hash(predictor) of the decoder's cache
\* holds the predictor.
C14_RunStoresPredictor ==
    (/\ pc = "loaded"
     /\ ~dec.failed
     /\ Len(Opcodes) > 0
     /\ OpKind(<< LastTag(Opcodes) >>) = "run") =>
        dec.cache[_pixel_hash(dec.current_pixel)] = dec.current_pixel

\* C15 -- Encoder run step leaves cache and predictor unchanged: the
\* iteration for a pixel equal to the predictor changes only the run
\* counter, the scan position and (on a flush at 62) the output; the cache
\* and the predictor are the same after it as before.  An image that
\* starts with pixels equal to the initial predictor (0,0,0,255) has an
\* all-zero cache all through that run.
C15_RunStepFrame ==
    (pc = "encoded") =>
        /\ \A k \in 1..Len(enc_recs) :
              enc_recs[k].pixel = enc_recs[k].prev =>
                  /\ enc_recs[k].op = << >>
                  /\ enc_recs[k].cache = CacheBefore(k)
                  /\ k < Len(enc_recs) => enc_recs[k + 1].prev = enc_recs[k].prev
        /\ \A k \in 1..Len(enc_recs) :
              (\A j \in 1..k : enc_recs[j].pixel = <<0, 0, 0, 255>>) =>
                  enc_recs[k].cache = InitCache

C15_Witness ==
    /\ pc = "encoded"
    /\ enc_recs[1].pixel = <<0, 0, 0, 255>>
    /\ \E k \in 2..Len(enc_recs) :
          /\ enc_recs[k].pixel = enc_recs[k].prev
          /\ CacheBefore(k) # InitCache
          /\ CacheBefore(k)[_pixel_hash(enc_recs[k].pixel)] = enc_recs[k].pixel

\* the buffer sizes a call of encode is examined with
CallSizes == (0..MaxBuf) \cup {MAXBLOCK}

\* C16 -- Output stays inside the caller's buffer: whatever the encoder
\* state and the buffer size, the bytes a call of encode writes have
\* indices below bufsize and the byte count it returns is at most bufsize;
\* this includes an iteration that writes a run flush and a 5-byte RGBA
\* opcode, and the flush of a run pending at the end of the image.
C16_InsideBuffer ==
    (pc = "encoding" /\ NumPixels > 0) =>
        \A bufsize \in CallSizes :
            LET r == Encode(enc, img, bufsize)
            IN  /\ Len(r.data) <= bufsize
                /\ \A i \in 1..Len(r.data) : i - 1 < bufsize

C16_Witness ==
    /\ pc = "encoding"
    /\ calls = 1
    /\ Len(enc_recs) = 2
    /\ enc_recs[2].flush = <<192>>
    /\ OpKind(enc_recs[2].op) = "rgba"
    /\ Len(fp) = 14 + 6
    /\ Len(Encode(EncoderInit, img, 7).data) = 6

\* the decoder after the opcode stream and end marker of the file have been
\* handed to decode in one buffer
WholeDecode == Decode(DecoderInit(dec.mode, dec.size), Slice(fp, 14, Len(fp)))

\* the stream of the file is valid: delivered in one buffer it puts exactly
\* width * height pixels and ends at the end marker
ValidStream ==
    /\ ~WholeDecode.d.failed
    /\ WholeDecode.n < 0
    /\ Len(WholeDecode.d.hist) = dec.size[1] * dec.size[2]

\* C17 -- Chunk-independent decoding: when a valid stream is delivered in
\* chunks (each call gets the unconsumed bytes followed by the next chunk),
\* the load ends without error, the pixels are those of the delivery in one
\* buffer, and no pixel is put for bytes of the end marker, wherever the
\* chunk boundaries fall.
C17_ChunkIndependent ==
    (pc \in {"loaded", "load_error"} /\ ValidStream) =>
        /\ pc = "loaded"
        /\ dec.im = WholeDecode.d.im
        /\ Len(dec.hist) = Len(WholeDecode.d.hist)

\* the scan position of encoder e in an image of the given size, as the
\* number of pixels before it in row-major order
ScanPos(e, size) == e.y * size[1] + e.x

\* C18 -- Encoding terminates: for an image with at least one pixel and a
\* buffer size of 7 or more, every call of encode made before the end of
\* the image moves the scan position forward by at least one pixel, so the
\* save loop has made at most width * height calls when the end of the
\* image is reported; after that report a further call would change
\* nothing, and the scan is never advanced again.
C18_Terminates ==
    [][ /\ (pc = "encoding" /\ pc' \in {"encoding", "encoded"}) =>
              /\ ScanPos(enc', img.size) > ScanPos(enc, img.size)
              /\ Len(enc_recs') > Len(enc_recs)
              /\ calls' = calls + 1
              /\ calls' <= NumPixels
              /\ pc' = "encoded" <=> (enc'.eof /\ Len(enc_recs') = NumPixels)
        /\ pc = "encoded" =>
              /\ enc.eof
              /\ \A bufsize \in BufSizes :
                    /\ Encode(enc, img, bufsize).e = enc
                    /\ Encode(enc, img, bufsize).recs = << >>
              /\ pc' = "saved"
        /\ pc \in {"encoded", "saved", "loading", "loaded", "load_error"} =>
              (enc_recs' = enc_recs /\ calls' = calls)
      ]_vars

C18_Witness ==
    /\ pc = "encoded"
    /\ NumPixels = 3
    /\ calls = NumPixels
    /\ ScanPos(enc, img.size) = NumPixels

\* every slot of the cache holds (0,0,0,0) or a pixel whose hash is the
\* slot's index
SlotsHashed(cache) ==
    \A k \in 0..63 : cache[k] = <<0, 0, 0, 0>> \/ _pixel_hash(cache[k]) = k

\* C19 -- Cache slot invariant: in every state of the encoder and of the
\* decoder, whatever the pixels encoded and whatever the opcodes decoded,
\* every cache slot k holds (0,0,0,0) or a pixel with hash k; this holds
\* after every pixel, not only at the end of a call.
C19_SlotsHashed ==
    /\ pc \in {"encoding", "encoded"} => SlotsHashed(enc.cache)
    /\ pc = "encoded" => \A k \in 1..Len(enc_recs) : SlotsHashed(enc_recs[k].cache)
    /\ pc \in {"loading", "loaded", "load_error"} =>
          /\ SlotsHashed(dec.cache)
          /\ pc \in {"loaded", "load_error"} =>
                \A k \in 1..Len(dec.hist) : SlotsHashed(dec.hist[k])

C19_Witness ==
    /\ pc = "loaded"
    /\ img = NoImage
    /\ Len(dec.hist) = 2
    /\ Cardinality({k \in 0..63 : dec.cache[k] # <<0, 0, 0, 0>>}) = 2

\* the opcode bytes written so far, and the offsets at which the opcodes
\* the encoder emitted start
Emitted == Slice(fp, 14, Len(fp))
EmittedStarts == OpStarts(Emitted, 0)

\* C20 -- No end marker inside the opcodes: in the opcode stream the
\* encoder has emitted for an image, no two consecutive opcodes are INDEX
\* opcodes with the same index, and the 8 bytes 00 00 00 00 00 00 00 01 do
\* not begin at the start of any opcode of the stream (the stream taken
\* together with the end marker that follows it).
C20_NoMarkerInside ==
    (pc = "encoded") =>
        /\ Len(EmittedStarts)
              = Cardinality({k \in 1..Len(enc_recs) : enc_recs[k].flush # << >>})
                + Cardinality({k \in 1..Len(enc_recs) : enc_recs[k].op # << >>})
                + (IF enc.run # 0 THEN 1 ELSE 0)
        /\ \A j \in 1..(Len(EmittedStarts) - 1) :
              LET t1 == Emitted[EmittedStarts[j] + 1]
                  t2 == Emitted[EmittedStarts[j + 1] + 1]
              IN  ~(t1 \in 0..63 /\ t2 = t1)
        /\ \A j \in 1..Len(EmittedStarts) :
              ~AtEofMarker(Emitted \o QOI_EOF_MARKER, EmittedStarts[j])

C20_Witness ==
    /\ pc = "encoded"
    /\ \E j \in 1..(Len(EmittedStarts) - 1) :
          /\ Emitted[EmittedStarts[j] + 1] = 0
          /\ Emitted[EmittedStarts[j + 1] + 1] \in 1..63

====
